---- MODULE Spec2Model ----
(***************************************************************************)
(* rudeboy-derive: the derive and attribute macros that generate rlua      *)
(* bindings (index dispatcher, method table, metamethods, UserData         *)
(* registration).  Every macro is a function from a parsed declaration     *)
(* (and an attribute list) to a token stream; the token stream is modelled *)
(* by its structure: the diagnostics it carries, whether the declaration   *)
(* is re-emitted, and the impl blocks with the statements of their         *)
(* functions.  The generated index closure is modelled by IndexClosure and *)
(* run by the CallIndex action.                                            *)
(***************************************************************************)
EXTENDS Integers, Sequences, FiniteSets, TLC

VARIABLES macro, input, attrs, out, call

vars == <<macro, input, attrs, out, call>>

(***************************************************************************)
(* Bounds of the enumerated inputs.                                        *)
(***************************************************************************)
MaxFields == 2
MaxItems == 2
MaxParams == 2
MaxAttrs == 2

SeqsUpTo(S, n) == UNION {[1..k -> S] : k \in 0..n}

Range(s) == {s[i] : i \in 1..Len(s)}

NoIdent == "<none>"
NoCall == [key |-> "<none>"]

(***************************************************************************)
(* Token streams.                                                          *)
(***************************************************************************)
\* quote_spanned! { span => compile_error!(msg); }
CompileError(span, msg) ==
    [kind |-> "macro_call", macro |-> "compile_error", span |-> span, msg |-> msg]

\* quote_spanned! { span => compiler_error!(msg); }   (methods.rs:34, lib.rs:165)
CompilerError(span, msg) ==
    [kind |-> "macro_call", macro |-> "compiler_error", span |-> span, msg |-> msg]

\* A token stream: top-level diagnostics, the re-emitted declaration (at most
\* one), and the generated impl blocks in emission order.
Tokens(errors, items, impls) == [errors |-> errors, items |-> items, impls |-> impls]

ErrorTokens(e) == Tokens(<<e>>, <<>>, <<>>)

Impl(trait, fns) == [trait |-> trait, fns |-> fns]

Fn(name, body) == [kind |-> "fn", name |-> name, body |-> body]

(***************************************************************************)
(* Diagnostics of the index derive (lib.rs).                               *)
(***************************************************************************)
MsgIndexStructsOnly == "RudeboyIndex macros can only be applied to structs"
MsgIndexNamedOnly == "RudeboyIndex macros can only be applied to structs with named fields"

(***************************************************************************)
(* Declarations given to the derives: syn::DeriveInput.  data is           *)
(* Data::Struct / Data::Enum / Data::Union; for a struct, style is         *)
(* Fields::Named / Fields::Unnamed / Fields::Unit and fields holds each    *)
(* field's ident (NoIdent for a positional field).                         *)
(***************************************************************************)
FieldNames == {"x", "y"}

Keys == FieldNames \cup {"z"}

Values == {1, 2}

Struct(style, fields) == [data |-> "struct", style |-> style, fields |-> fields]

Enum == [data |-> "enum", style |-> "unit", fields |-> <<>>]

Union == [data |-> "union", style |-> "named", fields |-> <<"x">>]

StructDecls ==
    {Struct("named", fs) : fs \in SeqsUpTo(FieldNames, MaxFields)}
        \cup {Struct("unnamed", fs) : fs \in SeqsUpTo({NoIdent}, MaxFields)}
        \cup {Struct("unit", <<>>)}

DeriveInputs == StructDecls \cup {Enum, Union}

\* stringify!(ident): the identifier's text
stringify(ident) == ident

\* IndexArms with every arm reading the first field
IndexArms_Mutant(field_names) ==
    [i \in 1..Len(field_names) |->
        [key |-> stringify(field_names[i]), field |-> field_names[1]]]

\* The #( if index_str == stringify!(#field_names) { Ok(data.#field_names...) } else )*
\* chain: one arm per field, in declaration order.
IndexArms(field_names) ==
    [i \in 1..Len(field_names) |->
        [key |-> stringify(field_names[i]), field |-> field_names[i]]]

\* methods.add_meta_method(::rlua::MetaMethod::Index, |ctx, data, index| ...)
IndexStatement(field_names) ==
    [call |-> "add_meta_method", tag |-> "Index",
     handler |-> [kind |-> "index", arms |-> IndexArms(field_names)]]

\* fields.iter().map(|f| f.ident.as_ref().unwrap()).collect()
field_names_of(fields) == fields

\* name::generate_index(methods); etc. inside add_methods
GenerateCall(fn) == [call |-> fn]

\* bad_struct without the fields.is_empty() test
bad_struct_Mutant(fields_style, fields) == ~(fields_style = "named")

\* let mut bad_struct = true; if let Fields::Named(_) = fields { bad_struct = false; }
\* if fields.is_empty() { bad_struct = true; }
bad_struct(fields_style, fields) ==
    IF Len(fields) = 0 THEN TRUE ELSE ~(fields_style = "named")

impl_index_macro(ast, gen_userdata) ==
    IF ast.data # "struct"
    THEN ErrorTokens(CompileError("ast", MsgIndexStructsOnly))
    ELSE IF bad_struct(ast.style, ast.fields)
    THEN ErrorTokens(CompileError("fields", MsgIndexNamedOnly))
    ELSE LET index == Impl("RudeboyIndex",
                           <<Fn("generate_index",
                                <<IndexStatement(field_names_of(ast.fields))>>)>>)
         IN  IF gen_userdata
             THEN Tokens(<<>>, <<>>,
                         <<index,
                           Impl("UserData",
                                <<Fn("add_methods", <<GenerateCall("generate_index")>>)>>)>>)
             ELSE Tokens(<<>>, <<>>, <<index>>)

\* impl_no_index_macro installing a dispatcher that has no arm
impl_no_index_macro_Mutant(ast) ==
    Tokens(<<>>, <<>>,
           <<Impl("RudeboyIndex", <<Fn("generate_index", <<IndexStatement(<<>>)>>)>>)>>)

\* impl RudeboyIndex for #name { fn generate_index(_: &mut M) { } }
impl_no_index_macro(ast) ==
    Tokens(<<>>, <<>>, <<Impl("RudeboyIndex", <<Fn("generate_index", <<>>)>>)>>)

(***************************************************************************)
(* The generated index closure, run on a native object data (a value per   *)
(* field) and a key: the first arm whose key equals index_str returns the  *)
(* field it reads; with no such arm the closure fails with                 *)
(* "No such index: <index_str>".                                           *)
(***************************************************************************)
RECURSIVE IndexArmsFrom(_, _, _, _)
IndexArmsFrom(arms, i, data, index_str) ==
    IF i > Len(arms)
    THEN [ok |-> FALSE, err |-> "No such index", key |-> index_str, value |-> 0]
    ELSE IF index_str = arms[i].key
         THEN [ok |-> TRUE, err |-> "", key |-> index_str, value |-> data[arms[i].field]]
         ELSE IndexArmsFrom(arms, i + 1, data, index_str)

IndexClosure(handler, data, index_str) == IndexArmsFrom(handler.arms, 1, data, index_str)

\* The functions of all impls of a token stream (an impl may also hold a
\* compile_error! call in the place of a function).
Fns(ts) ==
    {f \in UNION {Range(ts.impls[i].fns) : i \in 1..Len(ts.impls)} : f.kind = "fn"}

\* The statements of all functions of all impls of a token stream.
Statements(ts) == UNION {Range(f.body) : f \in Fns(ts)}

IsIndexStatement(s) == s.call = "add_meta_method" /\ s.tag = "Index"

IndexHandlers(ts) == {s.handler : s \in {t \in Statements(ts) : IsIndexStatement(t)}}

(***************************************************************************)
(* Method generation (methods.rs; lib.rs carries the same code with the    *)
(* gen_userdata switch).  An impl block is the sequence of its items; a    *)
(* method item has its name, the form of its receiver and the inputs that  *)
(* follow the receiver.  Receiver forms, as syn's Signature::receiver()    *)
(* tells them apart:                                                       *)
(*   "none"     no self parameter            -> None                       *)
(*   "self"     self / mut self              -> Receiver, reference none   *)
(*   "ref"      &self                        -> Receiver, reference some   *)
(*   "ref_mut"  &mut self                    -> Receiver, reference some,  *)
(*                                              mutability some            *)
(*   "typed_ref"    self: &Self, self: &mut Self  -> Typed                 *)
(*   "typed_value"  self: Self, self: Box<Self>   -> Typed                 *)
(***************************************************************************)
MsgTypedReceiver == "Cannot currently handle typed receivers (i.e., a receiver other than &self or &mut self)"
MsgClassLevel == "Cannot currently handle class level methods"
MsgMovesSelf == "Cannot add a method that moves self"
MsgZeroParams == "Unexpected method with zero parameters"
MsgExpectedIdent == "Expected an identifier here. This is probably a bug."
MsgExpectedTyped == "Expected a typed argument of the form 'ident: Type'. This is a bug."
MsgNotImpl == "Methods macro can only be applied to an inherent impl block"

MethodNames == {"f", "g"}

Receivers == {"none", "self", "ref", "ref_mut", "typed_ref", "typed_value"}

\* FnArg::Typed receivers
TypedReceivers == {"typed_ref", "typed_value"}

BorrowedReceivers == {"ref", "ref_mut"}

ParamNames == <<"a", "b", "c", "d">>

TyNames == <<"i32", "f64", "u8", "bool">>

\* The i-th input after the receiver: ident: Type, or a pattern that is not
\* an identifier, such as (p, q): (T, T).
Param(i, pat) ==
    [arg |-> "typed", pat |-> pat,
     ident |-> IF pat = "ident" THEN ParamNames[i] ELSE NoIdent, ty |-> TyNames[i]]

\* Parameter lists of up to MaxParams inputs, at most one of them not an
\* identifier pattern.
ParamLists ==
    UNION {{[i \in 1..k |-> Param(i, IF i = bad THEN "tuple" ELSE "ident")] : bad \in 0..k}
           : k \in 0..MaxParams}

Method(name, receiver, params) ==
    [kind |-> "method", name |-> name, receiver |-> receiver, params |-> params]

\* Methods whose receiver is rejected are enumerated with no parameter and
\* with one parameter that is not an identifier pattern.
MethodItems ==
    {Method(n, r, ps) : n \in MethodNames, r \in BorrowedReceivers, ps \in ParamLists}
        \cup {Method(n, r, ps) : n \in MethodNames, r \in Receivers \ BorrowedReceivers,
                                 ps \in {<<>>, <<Param(1, "tuple")>>}}

\* An associated const or type: an ImplItem that is not a method.
ConstItem == [kind |-> "const"]

ImplItems == MethodItems \cup {ConstItem}

ItemImpl(items) == [kind |-> "impl", items |-> items]

ImplBlocks == {ItemImpl(items) : items \in SeqsUpTo(ImplItems, MaxItems)}

ItemStruct(style, fields) == [kind |-> "struct", style |-> style, fields |-> fields]

ItemEnum == [kind |-> "enum"]

ItemFn == [kind |-> "fn"]

get_name_and_type_from_fn_arg(fn_arg) ==
    IF fn_arg.arg = "typed"
    THEN IF fn_arg.pat = "ident"
         THEN [ok |-> TRUE, name |-> fn_arg.ident, ty |-> fn_arg.ty]
         ELSE [ok |-> FALSE, err |-> CompilerError("pat", MsgExpectedIdent)]
    ELSE [ok |-> FALSE, err |-> CompileError("fn_arg", MsgExpectedTyped)]

\* while let Some(input) = input_iter.next() { ... names.push(name); tys.push(ty); }
RECURSIVE multi_params(_, _, _, _)
multi_params(params, i, names, tys) ==
    IF i > Len(params)
    THEN [ok |-> TRUE, params |-> [arity |-> "Multi", names |-> names, tys |-> tys]]
    ELSE LET r == get_name_and_type_from_fn_arg(params[i])
         IN  IF r.ok
             THEN multi_params(params, i + 1, Append(names, r.name), Append(tys, r.ty))
             ELSE [ok |-> FALSE, err |-> r.err]

\* signature.inputs.len(): the receiver, when the method has one, counts
inputs_len(m) == (IF m.receiver = "none" THEN 0 ELSE 1) + Len(m.params)

\* let params = if inputs_len == 0 {..} else if inputs_len == 1 {..} ...
method_params_of(m) ==
    IF inputs_len(m) = 0
    THEN [ok |-> FALSE, err |-> CompileError("signature", MsgZeroParams)]
    ELSE IF inputs_len(m) = 1
    THEN [ok |-> TRUE, params |-> [arity |-> "None"]]
    ELSE IF inputs_len(m) = 2
    THEN LET r == get_name_and_type_from_fn_arg(m.params[1])
         IN  IF r.ok
             THEN [ok |-> TRUE, params |-> [arity |-> "One", name |-> r.name, ty |-> r.ty]]
             ELSE [ok |-> FALSE, err |-> r.err]
    ELSE multi_params(m.params, 1, <<>>, <<>>)

\* let is_mut = receiver.mutability.is_some();
receiver_is_mut(receiver) == receiver = "ref_mut"

\* method_info taking self: &Self and self: &mut Self for the borrowed
\* receivers they are
method_info_Mutant(m) ==
    IF m.receiver = "typed_value"
    THEN [ok |-> FALSE, err |-> CompileError("signature", MsgTypedReceiver)]
    ELSE IF m.receiver = "none"
    THEN [ok |-> FALSE, err |-> CompileError("signature", MsgClassLevel)]
    ELSE IF m.receiver = "self"
    THEN [ok |-> FALSE, err |-> CompileError("signature", MsgMovesSelf)]
    ELSE LET p == method_params_of(m)
         IN  IF p.ok
             THEN [ok |-> TRUE,
                   info |-> [name |-> m.name, is_mut |-> receiver_is_mut(m.receiver),
                             params |-> p.params]]
             ELSE [ok |-> FALSE, err |-> p.err]

\* The body of the for loop for one method: the receiver checks, then the
\* parameters, then MethodInfo { name, is_mut, params }.
method_info(m) ==
    IF m.receiver \in TypedReceivers
    THEN [ok |-> FALSE, err |-> CompileError("signature", MsgTypedReceiver)]
    ELSE IF m.receiver = "none"
    THEN [ok |-> FALSE, err |-> CompileError("signature", MsgClassLevel)]
    ELSE IF m.receiver = "self"
    THEN [ok |-> FALSE, err |-> CompileError("signature", MsgMovesSelf)]
    ELSE LET p == method_params_of(m)
         IN  IF p.ok
             THEN [ok |-> TRUE,
                   info |-> [name |-> m.name, is_mut |-> receiver_is_mut(m.receiver),
                             params |-> p.params]]
             ELSE [ok |-> FALSE, err |-> p.err]

\* The span of a diagnostic raised on the i-th item of the block lies in that
\* item: signature.span(), pat.span() of items[i].
SpanIn(err, i) == [err EXCEPT !.span = <<err.span, i>>]

\* collect_methods going on after a failing method and returning the error of
\* the last failing one
RECURSIVE collect_methods_Mutant(_, _, _)
collect_methods_Mutant(items, i, methods) ==
    IF i > Len(items)
    THEN [ok |-> TRUE, methods |-> methods]
    ELSE IF items[i].kind = "method"
         THEN LET r == method_info(items[i])
                  rest == collect_methods_Mutant(items, i + 1,
                                                 IF r.ok THEN Append(methods, r.info)
                                                 ELSE methods)
              IN  IF r.ok \/ ~rest.ok
                  THEN rest
                  ELSE [ok |-> FALSE, err |-> SpanIn(r.err, i)]
         ELSE collect_methods_Mutant(items, i + 1, methods)

\* for item in &ast.items { if let ImplItem::Method(m) = item { ... methods.push(..) } }
\* with return <error tokens> at the first check that fails
RECURSIVE collect_methods(_, _, _)
collect_methods(items, i, methods) ==
    IF i > Len(items)
    THEN [ok |-> TRUE, methods |-> methods]
    ELSE IF items[i].kind = "method"
         THEN LET r == method_info(items[i])
              IN  IF r.ok
                  THEN collect_methods(items, i + 1, Append(methods, r.info))
                  ELSE [ok |-> FALSE, err |-> SpanIn(r.err, i)]
         ELSE collect_methods(items, i + 1, methods)

\* method_call registering every method with add_method
method_call_Mutant(m) == "add_method"

\* let call = if m.is_mut { _methods.add_method_mut } else { _methods.add_method };
method_call(m) == IF m.is_mut THEN "add_method_mut" ELSE "add_method"

\* The closure's third parameter: (), name : ty, or (names,) : (tys,)
params_param(m) ==
    IF m.params.arity = "None"
    THEN [form |-> "unit", pat |-> <<>>, ty |-> <<>>]
    ELSE IF m.params.arity = "One"
    THEN [form |-> "single", pat |-> <<m.params.name>>, ty |-> <<m.params.ty>>]
    ELSE [form |-> "tuple", pat |-> m.params.names, ty |-> m.params.tys]

\* method_params passing the names of a Multi parameter list in reverse
method_params_Mutant(m) ==
    IF m.params.arity = "None"
    THEN <<>>
    ELSE IF m.params.arity = "One"
    THEN <<m.params.name>>
    ELSE [j \in 1..Len(m.params.names) |-> m.params.names[Len(m.params.names) + 1 - j]]

\* The arguments of data.#name(...): (), (name), or (names,)
method_params(m) ==
    IF m.params.arity = "None"
    THEN <<>>
    ELSE IF m.params.arity = "One"
    THEN <<m.params.name>>
    ELSE m.params.names

\* #call (stringify!(#name), |_, data, #params_param| { Ok(data.#name #method_params) });
method_quote(m) ==
    [call |-> method_call(m), key |-> stringify(m.name),
     handler |-> [kind |-> "method", params_param |-> params_param(m),
                  method |-> m.name, method_params |-> method_params(m)]]

\* mqs_of emitting the entries in reverse order
mqs_of_Mutant(methods) ==
    [i \in 1..Len(methods) |-> method_quote(methods[Len(methods) + 1 - i])]

mqs_of(methods) == [i \in 1..Len(methods) |-> method_quote(methods[i])]

\* The methods of a list without those whose name an earlier one has.
FirstOfEachName(methods) ==
    LET Fresh(i) == \A j \in 1..(i - 1) : methods[j].name # methods[i].name
        kept == {i \in 1..Len(methods) : Fresh(i)}
        nth(k) == CHOOSE i \in kept : Cardinality({j \in kept : j < i}) = k - 1
    IN  [k \in 1..Cardinality(kept) |-> methods[nth(k)]]

\* implitem_methods_attr_macro emitting one entry per method name
implitem_methods_attr_macro_Mutant(ast) ==
    LET r == collect_methods(ast.items, 1, <<>>)
    IN  IF ~r.ok
        THEN ErrorTokens(r.err)
        ELSE Tokens(<<>>, <<ast>>,
                    <<Impl("RudeboyMethods",
                           <<Fn("generate_methods", mqs_of(FirstOfEachName(r.methods)))>>)>>)

\* methods.rs
implitem_methods_attr_macro(ast) ==
    LET r == collect_methods(ast.items, 1, <<>>)
    IN  IF ~r.ok
        THEN ErrorTokens(r.err)
        ELSE Tokens(<<>>, <<ast>>,
                    <<Impl("RudeboyMethods", <<Fn("generate_methods", mqs_of(r.methods))>>)>>)

impl_methods_attr_macro(item) ==
    IF item.kind = "impl"
    THEN implitem_methods_attr_macro(item)
    ELSE ErrorTokens(CompileError("item", MsgNotImpl))

\* lib.rs: the same generator with the gen_userdata switch of MethodsSealed
lib_implitem_methods_attr_macro(ast, gen_userdata) ==
    LET r == collect_methods(ast.items, 1, <<>>)
        methods == Impl("RudeboyMethods", <<Fn("generate_methods", mqs_of(r.methods))>>)
    IN  IF ~r.ok
        THEN ErrorTokens(r.err)
        ELSE IF gen_userdata
             THEN Tokens(<<>>, <<ast>>,
                         <<methods,
                           Impl("UserData",
                                <<Fn("add_methods",
                                     <<GenerateCall("generate_index"),
                                       GenerateCall("generate_methods")>>)>>)>>)
             ELSE Tokens(<<>>, <<ast>>, <<methods>>)

lib_impl_methods_attr_macro(item, gen_userdata) ==
    IF item.kind = "impl"
    THEN lib_implitem_methods_attr_macro(item, gen_userdata)
    ELSE ErrorTokens(CompileError("item", MsgNotImpl))

(***************************************************************************)
(* A generated method closure, called with the Lua-side arguments args.    *)
(* The closure parameter converts them: () takes anything and binds        *)
(* nothing, name : ty binds the first argument, (names,) : (tys,) binds    *)
(* the i-th argument to the i-th name.  The closure then calls             *)
(* data.method with the values of method_params, in that order.  The       *)
(* registration call fixes the access it takes to the native object.       *)
(***************************************************************************)
Binding(pp, args) == [i \in 1..Len(pp.pat) |-> [name |-> pp.pat[i], value |-> args[i]]]

BoundValue(binding, name) ==
    binding[CHOOSE i \in 1..Len(binding) : binding[i].name = name].value

MethodClosure(statement, args) ==
    LET h == statement.handler
        binding == Binding(h.params_param, args)
    IN  [method |-> h.method,
         passed |-> [i \in 1..Len(h.method_params) |-> BoundValue(binding, h.method_params[i])],
         access |-> IF statement.call = "add_method_mut" THEN "exclusive" ELSE "shared"]

IsMethodStatement(s) == s.call \in {"add_method", "add_method_mut"}

\* The body of generate_methods, or <<>> when the token stream has none.
GenerateMethodsBody(ts) ==
    IF \E i \in 1..Len(ts.impls) : ts.impls[i].trait = "RudeboyMethods"
    THEN (ts.impls[CHOOSE i \in 1..Len(ts.impls) : ts.impls[i].trait = "RudeboyMethods"]).fns[1].body
    ELSE <<>>

\* The registration routine run on the method table of the type:
\* generate_methods executes its statements in order, and each
\* add_method / add_method_mut binds its closure to its key, in the place of
\* what the key was bound to.  The table maps a key to the entry bound to it.
RECURSIVE Register(_, _, _)
Register(body, i, table) ==
    IF i > Len(body)
    THEN table
    ELSE Register(body, i + 1,
                  [k \in DOMAIN table \cup {body[i].key} |->
                       IF k = body[i].key THEN i ELSE table[k]])

MethodTable(ts) == Register(GenerateMethodsBody(ts), 1, <<>>)

\* Lua-side argument lists: k values, the i-th being 10 * i.
LuaArgs == {[i \in 1..k |-> 10 * i] : k \in 0..MaxParams}

(***************************************************************************)
(* Metamethod generation (metamethods.rs).  An attribute argument is a     *)
(* syn::NestedMeta: a path (an identifier) or anything else (a literal).   *)
(***************************************************************************)
MsgMetaIdent == "Expected a valid metamethod identifier"
MsgMetaItem == "metamethods can only be applied to structs and enums"
MsgMetaIndexStructsOnly == "Index metamethod can only be applied to structs"
MsgMetaIndexNamedOnly == "Index metamethod can only be applied to structs with named fields"

Path(ident) == [meta |-> "path", ident |-> ident]

Lit == [meta |-> "lit", ident |-> NoIdent]

\* The *_IDENT constants of MetaMethod with the variant each one parses to, in
\* the order try_parse tests them.
MetaMethodIdents ==
    << [ident |-> "Add", variant |-> "Add"],
       [ident |-> "Eq", variant |-> "Eq"],
       [ident |-> "Index", variant |-> "Index"],
       [ident |-> "Sub", variant |-> "Sub"],
       [ident |-> "Mul", variant |-> "Mul"],
       [ident |-> "Div", variant |-> "Div"],
       [ident |-> "Mod", variant |-> "Mod"],
       [ident |-> "Unm", variant |-> "Unm"],
       [ident |-> "BAnd", variant |-> "BAnd"],
       [ident |-> "BOr", variant |-> "BOr"],
       [ident |-> "BXor", variant |-> "BXor"],
       [ident |-> "BNot", variant |-> "BNot"],
       [ident |-> "Shl", variant |-> "Shl"],
       [ident |-> "Shr", variant |-> "Shr"],
       [ident |-> "Lt", variant |-> "Lt"],
       [ident |-> "Le", variant |-> "Le"] >>

\* enum MetaMethod
MetaMethod == {MetaMethodIdents[i].variant : i \in 1..Len(MetaMethodIdents)}

RECURSIVE try_parse_from(_, _, _, _)
try_parse_from(table, i, path, msg) ==
    IF i > Len(table)
    THEN [ok |-> FALSE, err |-> CompileError("path", msg)]
    ELSE IF path.ident = table[i].ident
         THEN [ok |-> TRUE, value |-> table[i].variant]
         ELSE try_parse_from(table, i + 1, path, msg)

\* MetaMethod::try_parse
metamethod_try_parse(path) == try_parse_from(MetaMethodIdents, 1, path, MsgMetaIdent)

\* operator_method registering every operator under the tag Add
operator_method_Mutant(name, rlua_enum, operator) ==
    Fn(name, <<[call |-> "add_meta_method", tag |-> "Add",
                handler |-> [kind |-> "binary", operator |-> operator]]>>)

operator_method(name, rlua_enum, operator) ==
    Fn(name, <<[call |-> "add_meta_method", tag |-> rlua_enum,
                handler |-> [kind |-> "binary", operator |-> operator]]>>)

unary_operator_method(name, rlua_enum, operator) ==
    Fn(name, <<[call |-> "add_meta_method", tag |-> rlua_enum,
                handler |-> [kind |-> "unary", operator |-> operator]]>>)

\* MetaMethod::Index => { ... }
index_method(ast) ==
    IF ast.data # "struct"
    THEN CompileError("ast", MsgMetaIndexStructsOnly)
    ELSE IF bad_struct(ast.style, ast.fields)
         THEN CompileError("fields", MsgMetaIndexNamedOnly)
         ELSE Fn("generate_index", <<IndexStatement(field_names_of(ast.fields))>>)

\* MetaMethod::get_method
get_method(self, ast) ==
    CASE self = "Add" -> operator_method("generate_add", "Add", "+")
      [] self = "Eq" -> operator_method("generate_eq", "Eq", "==")
      [] self = "Index" -> index_method(ast)
      [] self = "Sub" -> operator_method("generate_sub", "Sub", "-")
      [] self = "Mul" -> operator_method("generate_mul", "Mul", "*")
      [] self = "Div" -> operator_method("generate_div", "Div", "/")
      [] self = "Mod" -> operator_method("generate_mod", "Mod", "%")
      [] self = "Unm" -> unary_operator_method("generate_unm", "Unm", "-")
      [] self = "BAnd" -> operator_method("generate_band", "BAnd", "&")
      [] self = "BOr" -> operator_method("generate_bor", "BOr", "|")
      [] self = "BXor" -> operator_method("generate_bxor", "BXor", "^")
      [] self = "BNot" -> unary_operator_method("generate_bnot", "BNot", "!")
      [] self = "Shl" -> operator_method("generate_shl", "Shl", "<<")
      [] self = "Shr" -> operator_method("generate_shr", "Shr", ">>")
      [] self = "Lt" -> operator_method("generate_lt", "Lt", "<")
      [] self = "Le" -> operator_method("generate_le", "Le", "<=")

\* attrs_to_metamethods_from skipping an identifier try_parse rejects
RECURSIVE attrs_to_metamethods_from_Mutant(_, _, _)
attrs_to_metamethods_from_Mutant(as, i, metamethods) ==
    IF i > Len(as)
    THEN [ok |-> TRUE, set |-> metamethods]
    ELSE IF as[i].meta = "path"
         THEN LET r == metamethod_try_parse(as[i])
              IN  IF r.ok
                  THEN attrs_to_metamethods_from_Mutant(as, i + 1, metamethods \cup {r.value})
                  ELSE attrs_to_metamethods_from_Mutant(as, i + 1, metamethods)
         ELSE [ok |-> FALSE, err |-> CompileError("attr", MsgMetaIdent)]

\* for attr in attrs { set.insert(match attr { Meta(Path(p)) => try_parse(p)?, _ => return Err }) }
RECURSIVE attrs_to_metamethods_from(_, _, _)
attrs_to_metamethods_from(as, i, metamethods) ==
    IF i > Len(as)
    THEN [ok |-> TRUE, set |-> metamethods]
    ELSE IF as[i].meta = "path"
         THEN LET r == metamethod_try_parse(as[i])
              IN  IF r.ok
                  THEN attrs_to_metamethods_from(as, i + 1, metamethods \cup {r.value})
                  ELSE [ok |-> FALSE, err |-> r.err]
         ELSE [ok |-> FALSE, err |-> CompileError("attr", MsgMetaIdent)]

attrs_to_metamethods(as) == attrs_to_metamethods_from(as, 1, {})

\* The orders in which HashSet::iter may yield the elements of a set.
IterOrders(set) ==
    {o \in [1..Cardinality(set) -> set] : \A i, j \in 1..Cardinality(set) : o[i] = o[j] => i = j}

\* syn::DeriveInput::from(ItemStruct / ItemEnum)
DeriveInputFrom(item) ==
    IF item.kind = "struct" THEN Struct(item.style, item.fields) ELSE Enum

\* impl_metamethods_attr_macro emitting one function per listed attribute, the
\* list being kept as it is written instead of collected into a set
impl_metamethods_attr_macro_Mutant(item, as, order) ==
    IF item.kind \notin {"struct", "enum"}
    THEN ErrorTokens(CompileError("item", MsgMetaItem))
    ELSE LET di == DeriveInputFrom(item)
             r == attrs_to_metamethods(as)
         IN  IF ~r.ok
             THEN ErrorTokens(r.err)
             ELSE Tokens(<<>>, <<item>>,
                         <<Impl("RudeboyMetaMethods",
                                [i \in 1..Len(as) |->
                                     get_method(metamethod_try_parse(as[i]).value, di)])>>)

\* order: the order in which the HashSet of metamethods is iterated
impl_metamethods_attr_macro(item, as, order) ==
    IF item.kind \notin {"struct", "enum"}
    THEN ErrorTokens(CompileError("item", MsgMetaItem))
    ELSE LET di == DeriveInputFrom(item)
             r == attrs_to_metamethods(as)
         IN  IF ~r.ok
             THEN ErrorTokens(r.err)
             ELSE Tokens(<<>>, <<item>>,
                         <<Impl("RudeboyMetaMethods",
                                [i \in 1..Len(order) |-> get_method(order[i], di)])>>)

\* The iteration orders of the set the attribute list parses to.
MetaMethodOrders(as) ==
    LET r == attrs_to_metamethods(as) IN IF r.ok THEN IterOrders(r.set) ELSE {<<>>}

MetaAttrs == {Path(id) : id \in MetaMethod \cup {"Foo"}} \cup {Lit}

TypeItems ==
    {ItemStruct("named", fs) : fs \in SeqsUpTo(FieldNames, MaxFields)}
        \cup {ItemStruct("unnamed", fs) : fs \in SeqsUpTo({NoIdent}, MaxFields)}
        \cup {ItemStruct("unit", <<>>), ItemEnum}

(***************************************************************************)
(* UserData registration (user_data.rs).                                   *)
(***************************************************************************)
MsgUserDataPath == "Expected a valid metamethod identifier"
MsgUserDataAttr == "Expected a valid user_data identifier"
MsgUserDataItem == "user_data macro can only be applied to a struct or an inherent impl block"

\* META_METHODS_IDENT, METHODS_IDENT with the variants of enum UserDataAttr
UserDataIdents ==
    << [ident |-> "MetaMethods", variant |-> "MetaMethods"],
       [ident |-> "Methods", variant |-> "Methods"] >>

UserDataAttr == {UserDataIdents[i].variant : i \in 1..Len(UserDataIdents)}

\* UserDataAttr::try_parse
user_data_try_parse(path) == try_parse_from(UserDataIdents, 1, path, MsgUserDataPath)

\* get_code calling generate_methods for either attr
get_code_Mutant(self) == GenerateCall("generate_methods")

\* UserDataAttr::get_code: use ::rudeboy::Trait; #name::generate_x(methods);
get_code(self) ==
    IF self = "MetaMethods"
    THEN GenerateCall("generate_metamethods")
    ELSE GenerateCall("generate_methods")

RECURSIVE attrs_to_user_data_attrs_from(_, _, _)
attrs_to_user_data_attrs_from(as, i, ret) ==
    IF i > Len(as)
    THEN [ok |-> TRUE, set |-> ret]
    ELSE IF as[i].meta = "path"
         THEN LET r == user_data_try_parse(as[i])
              IN  IF r.ok
                  THEN attrs_to_user_data_attrs_from(as, i + 1, ret \cup {r.value})
                  ELSE [ok |-> FALSE, err |-> r.err]
         ELSE [ok |-> FALSE, err |-> CompileError("attr", MsgUserDataAttr)]

attrs_to_user_data_attrs(as) == attrs_to_user_data_attrs_from(as, 1, {})

\* order: the order in which the HashSet of attrs is iterated
impl_user_data_attr_macro(item, as, order) ==
    IF item.kind \notin {"impl", "struct", "enum"}
    THEN ErrorTokens(CompileError("item", MsgUserDataItem))
    ELSE LET r == attrs_to_user_data_attrs(as)
         IN  IF ~r.ok
             THEN ErrorTokens(r.err)
             ELSE Tokens(<<>>, <<item>>,
                         <<Impl("UserData",
                                <<Fn("add_methods",
                                     [i \in 1..Len(order) |-> get_code(order[i])])>>)>>)

UserDataOrders(as) ==
    LET r == attrs_to_user_data_attrs(as) IN IF r.ok THEN IterOrders(r.set) ELSE {<<>>}

UserDataAttrs == {Path(id) : id \in UserDataAttr \cup {"Index", "Foo"}} \cup {Lit}

UserDataItems == {ItemImpl(<<>>), ItemImpl(<<Method("f", "ref", <<>>)>>),
                  ItemStruct("named", <<"x">>), ItemStruct("unit", <<>>), ItemEnum, ItemFn}

(***************************************************************************)
(* Actions: one macro expansion per step, and calls of the closure the     *)
(* last expansion generated.                                               *)
(***************************************************************************)
NoAttrs == <<>>

Init ==
    /\ macro = "none"
    /\ input = [data |-> "none"]
    /\ attrs = NoAttrs
    /\ out = Tokens(<<>>, <<>>, <<>>)
    /\ call = NoCall

\* One declaration in, one emission out: a macro expands the declaration it is
\* attached to once.
Unexpanded == macro = "none"

Expand(m, item, as, ts) ==
    /\ macro' = m
    /\ input' = item
    /\ attrs' = as
    /\ out' = ts
    /\ call' = NoCall

\* #[derive(Index)]
rlua_index_macro_derive ==
    /\ Unexpanded
    /\ \E ast \in DeriveInputs :
           Expand("Index", ast, NoAttrs, impl_index_macro(ast, FALSE))

\* #[derive(IndexSealed)]
rlua_index_sealed_macro_derive ==
    /\ Unexpanded
    /\ \E ast \in DeriveInputs :
           Expand("IndexSealed", ast, NoAttrs, impl_index_macro(ast, TRUE))

\* #[derive(NoIndex)]
rlua_no_index_macro_derive ==
    /\ Unexpanded
    /\ \E ast \in DeriveInputs :
           Expand("NoIndex", ast, NoAttrs, impl_no_index_macro(ast))

\* Lua indexes a value of the type: the registered Index closure runs.
CallIndex ==
    \E h \in IndexHandlers(out), data \in [FieldNames -> Values], k \in Keys :
        /\ call' = [key |-> k, data |-> data, result |-> IndexClosure(h, data, k)]
        /\ UNCHANGED <<macro, input, attrs, out>>

NextIndex ==
    \/ rlua_index_macro_derive
    \/ rlua_index_sealed_macro_derive
    \/ rlua_no_index_macro_derive
    \/ CallIndex

SpecIndex == Init /\ [][NextIndex]_vars

\* #[Methods] (methods.rs)
Methods ==
    /\ Unexpanded
    /\ \E item \in ImplBlocks \cup {ItemFn} :
           Expand("methods", item, NoAttrs, impl_methods_attr_macro(item))

\* #[Methods] (lib.rs)
LibMethods ==
    /\ Unexpanded
    /\ \E item \in ImplBlocks \cup {ItemFn} :
           Expand("Methods", item, NoAttrs, lib_impl_methods_attr_macro(item, FALSE))

\* #[MethodsSealed] (lib.rs)
LibMethodsSealed ==
    /\ Unexpanded
    /\ \E item \in ImplBlocks \cup {ItemFn} :
           Expand("MethodsSealed", item, NoAttrs, lib_impl_methods_attr_macro(item, TRUE))

\* Lua calls a method by its name: the closure the method table binds to the
\* name runs.
CallMethod ==
    \E name \in DOMAIN MethodTable(out), args \in LuaArgs :
        LET i == MethodTable(out)[name]
            s == GenerateMethodsBody(out)[i]
        IN  /\ s.handler.params_param.form = "unit" \/ Len(args) = Len(s.handler.params_param.pat)
            /\ call' = [key |-> name, entry |-> i, args |-> args,
                        result |-> MethodClosure(s, args)]
            /\ UNCHANGED <<macro, input, attrs, out>>

NextMethods ==
    \/ Methods
    \/ LibMethods
    \/ LibMethodsSealed
    \/ CallMethod

SpecMethods == Init /\ [][NextMethods]_vars

\* #[metamethods(...)]
metamethods ==
    /\ Unexpanded
    /\ \E item \in TypeItems \cup {ItemFn}, as \in SeqsUpTo(MetaAttrs, MaxAttrs) :
           \E order \in MetaMethodOrders(as) :
               Expand("metamethods", item, as, impl_metamethods_attr_macro(item, as, order))

NextMeta ==
    \/ metamethods
    \/ CallIndex

SpecMeta == Init /\ [][NextMeta]_vars

\* #[user_data(...)]
user_data ==
    /\ Unexpanded
    /\ \E item \in UserDataItems, as \in SeqsUpTo(UserDataAttrs, MaxAttrs) :
           \E order \in UserDataOrders(as) :
               Expand("user_data", item, as, impl_user_data_attr_macro(item, as, order))

NextUserData == user_data

SpecUserData == Init /\ [][NextUserData]_vars

NextAttrs ==
    \/ metamethods
    \/ user_data

SpecAttrs == Init /\ [][NextAttrs]_vars

\* Index dispatchers of both generators
NextDispatch ==
    \/ rlua_index_macro_derive
    \/ rlua_index_sealed_macro_derive
    \/ metamethods
    \/ CallIndex

SpecDispatch == Init /\ [][NextDispatch]_vars

\* The attribute macros, which re-emit the declaration they are attached to
NextAttrMacros ==
    \/ Methods
    \/ LibMethods
    \/ LibMethodsSealed
    \/ metamethods
    \/ user_data

SpecAttrMacros == Init /\ [][NextAttrMacros]_vars

(***************************************************************************)
(* Properties.                                                             *)
(***************************************************************************)
Failed(ts) == Len(ts.errors) > 0

\* The token stream is a compile_error! whose message is one of msgs.
Reported(ts, msgs) ==
    \E i \in 1..Len(ts.errors) :
        ts.errors[i].macro = "compile_error" /\ ts.errors[i].msg \in msgs

\* Neither the declaration nor any impl block is emitted.
NothingEmitted(ts) == ts.items = <<>> /\ ts.impls = <<>>

\* The error kinds of the design, as sets of the diagnostics of the code.
UnsupportedShape ==
    {MsgIndexStructsOnly, MsgIndexNamedOnly, MsgMetaIndexStructsOnly, MsgMetaIndexNamedOnly}
NoReceiver == {MsgClassLevel}
OwningReceiver == {MsgMovesSelf}
UnsupportedParameterPattern == {MsgExpectedIdent}
UnknownMetamethod == {MsgMetaIdent}
UnknownCapability == {MsgUserDataAttr}

IndexDerives == {"Index", "IndexSealed"}

MethodMacros == {"methods", "Methods", "MethodsSealed"}

UniqueNames(names) == \A i, j \in 1..Len(names) : names[i] = names[j] => i = j

\* C1: for a record with a non-empty set of uniquely named fields F, the
\* generated index dispatcher called with key k returns the value of the field
\* named k when k is in F, and fails with NoSuchIndex carrying k when it is not.
C1_IndexDispatch ==
    (/\ macro \in IndexDerives \cup {"metamethods"}
     /\ call # NoCall
     /\ UniqueNames(input.fields))
        => IF call.key \in Range(input.fields)
           THEN call.result.ok /\ call.result.value = call.data[call.key]
           ELSE /\ ~call.result.ok
                /\ call.result.err = "No such index"
                /\ call.result.key = call.key

C1_Witness ==
    /\ macro = "metamethods"
    /\ call # NoCall
    /\ input.fields = <<"x", "y">>
    /\ call.key = "y"
    /\ call.data["x"] # call.data["y"]
    /\ call.result.ok
    /\ call.result.value = call.data["y"]

\* C2 as stated: a record with zero fields is rejected with an error kind of
\* its own (EmptyShape), not the one given to a record with positional fields
\* (UnsupportedShape), and nothing is emitted.
PositionalDiagnostics ==
    {impl_index_macro(Struct("unnamed", <<NoIdent>>), g).errors[1].msg : g \in BOOLEAN}

C2_Original ==
    (macro \in IndexDerives /\ input.data = "struct" /\ Len(input.fields) = 0)
        => /\ Failed(out)
           /\ NothingEmitted(out)
           /\ out.errors[1].msg \notin PositionalDiagnostics

\* C2 (amended): the index derive applied to a record with zero fields or with
\* positional fields fails with one and the same diagnostic (structs with named
\* fields only), applied to a non-record kind it fails with the structs-only
\* diagnostic, both of kind UnsupportedShape; in each case neither an index
\* dispatcher nor a registration routine is emitted.
C2_ShapeRejected ==
    macro \in IndexDerives =>
        /\ (input.data = "struct" /\ (Len(input.fields) = 0 \/ input.style # "named"))
               => /\ Reported(out, {MsgIndexNamedOnly})
                  /\ Reported(out, UnsupportedShape)
                  /\ NothingEmitted(out)
        /\ input.data # "struct"
               => /\ Reported(out, {MsgIndexStructsOnly})
                  /\ Reported(out, UnsupportedShape)
                  /\ NothingEmitted(out)

C2_Witness ==
    /\ macro = "IndexSealed"
    /\ input = Struct("named", <<>>)
    /\ Reported(out, {MsgIndexNamedOnly})

IsMethod(item) == item.kind = "method"

MethodsOf(block) == SelectSeq(block.items, IsMethod)

IdentParams(m) == \A j \in 1..Len(m.params) : m.params[j].pat = "ident"

ValidMethod(m) == m.receiver \in BorrowedReceivers /\ IdentParams(m)

ValidBlock(block) ==
    block.kind = "impl" /\ \A i \in 1..Len(MethodsOf(block)) : ValidMethod(MethodsOf(block)[i])

ParamIdents(m) == [j \in 1..Len(m.params) |-> m.params[j].ident]

ParamTys(m) == [j \in 1..Len(m.params) |-> m.params[j].ty]

\* C3: for an impl block whose methods are all valid and uniquely named,
\* method generation emits exactly one dispatch entry per method, keyed by the
\* method's name, in declaration order; items that are not methods contribute
\* no entry; each entry calls the method of the same name with its parameters
\* in declared order.
C3_OneEntryPerMethod ==
    (/\ macro \in MethodMacros
     /\ ValidBlock(input)
     /\ UniqueNames([i \in 1..Len(MethodsOf(input)) |-> MethodsOf(input)[i].name]))
        => LET ms == MethodsOf(input)
               body == GenerateMethodsBody(out)
           IN  /\ ~Failed(out)
               /\ Cardinality({i \in 1..Len(out.impls) :
                                   out.impls[i].trait = "RudeboyMethods"}) = 1
               /\ Len(body) = Len(ms)
               /\ \A i \in 1..Len(ms) :
                      /\ IsMethodStatement(body[i])
                      /\ body[i].key = ms[i].name
                      /\ body[i].handler.method = ms[i].name
                      /\ body[i].handler.method_params = ParamIdents(ms[i])

C3_Witness ==
    /\ macro = "methods"
    /\ input.kind = "impl"
    /\ Len(input.items) = 2
    /\ input.items[1] = ConstItem
    /\ input.items[2] = Method("g", "ref_mut", <<Param(1, "ident"), Param(2, "ident")>>)
    /\ Len(GenerateMethodsBody(out)) = 1
    /\ GenerateMethodsBody(out)[1].key = "g"

\* The kinds of the offences C4 names that a method commits.
Offences(m) ==
    (IF m.receiver = "none" THEN NoReceiver ELSE {})
        \cup (IF m.receiver = "self" THEN OwningReceiver ELSE {})
        \cup (IF ~IdentParams(m) THEN UnsupportedParameterPattern ELSE {})

BlockOffences(block) == UNION {Offences(MethodsOf(block)[i]) : i \in 1..Len(MethodsOf(block))}

NoTypedReceiver(block) ==
    \A i \in 1..Len(MethodsOf(block)) : MethodsOf(block)[i].receiver \notin TypedReceivers

\* C4: if a method of an impl block has no receiver, a by-value receiver or a
\* parameter that is not a plain identifier, method generation fails with
\* NoReceiver, OwningReceiver or UnsupportedParameterPattern respectively (one
\* of the offences the block commits is reported), and nothing of the block is
\* emitted.
C4_InvalidMethodAborts ==
    (/\ macro \in MethodMacros
     /\ input.kind = "impl"
     /\ NoTypedReceiver(input)
     /\ BlockOffences(input) # {})
        => /\ Reported(out, BlockOffences(input))
           /\ NothingEmitted(out)

\* The part of C4 that does not depend on which diagnostic is reported: a block
\* with an offending method yields an error token stream and nothing else.
C4_NothingOfTheBlock ==
    (/\ macro \in MethodMacros
     /\ input.kind = "impl"
     /\ ~ValidBlock(input))
        => Failed(out) /\ NothingEmitted(out) /\ Statements(out) = {}

Eligible(item, variant) ==
    /\ item.kind \in {"struct", "enum"}
    /\ variant = "Index" =>
           item.kind = "struct" /\ item.style = "named" /\ Len(item.fields) > 0

TagOf(variant) ==
    get_method(variant, Struct("named", <<"x">>)).body[1].tag

\* C5: requesting any one of the 16 recognized operator identifiers on an
\* eligible type yields exactly one dispatch entry, under the host tag of the
\* same name, and no two distinct identifiers yield an entry under the same tag.
C5_CatalogInjective ==
    (/\ macro = "metamethods"
     /\ Len(attrs) = 1
     /\ attrs[1].meta = "path"
     /\ attrs[1].ident \in MetaMethod
     /\ Eligible(input, attrs[1].ident))
        => /\ ~Failed(out)
           /\ Len(out.impls) = 1
           /\ Len(out.impls[1].fns) = 1
           /\ out.impls[1].fns[1].kind = "fn"
           /\ Len(out.impls[1].fns[1].body) = 1
           /\ out.impls[1].fns[1].body[1].call = "add_meta_method"
           /\ out.impls[1].fns[1].body[1].tag = attrs[1].ident
           /\ Cardinality(MetaMethod) = 16
           /\ \A other \in MetaMethod :
                  TagOf(other) = out.impls[1].fns[1].body[1].tag => other = attrs[1].ident

C5_Witness ==
    /\ macro = "metamethods"
    /\ attrs = <<Path("Le")>>
    /\ input = ItemEnum
    /\ Statements(out) # {}
    /\ \A s \in Statements(out) : s.tag = "Le"

Recognized(attr, idents) == attr.meta = "path" /\ attr.ident \in idents

C7_AccessFollowsReceiver ==
    (macro \in MethodMacros /\ ~Failed(out) /\ input.kind = "impl")
        => LET ms == MethodsOf(input)
               body == GenerateMethodsBody(out)
           IN  /\ Len(body) = Len(ms)
               /\ \A i \in 1..Len(body) :
                      /\ body[i].call = "add_method_mut" <=> ms[i].receiver = "ref_mut"
                      /\ body[i].call = "add_method" <=> ms[i].receiver = "ref"
               /\ call # NoCall =>
                      (call.result.access = "exclusive"
                           <=> ms[call.entry].receiver = "ref_mut")

C7_Witness ==
    /\ macro = "methods"
    /\ input.kind = "impl"
    /\ Len(input.items) = 2
    /\ input.items[1] = Method("f", "ref", <<>>)
    /\ input.items[2] = Method("g", "ref_mut", <<Param(1, "ident")>>)
    /\ call # NoCall
    /\ call.entry = 2
    /\ call.result.access = "exclusive"
    /\ GenerateMethodsBody(out)[1].call = "add_method"

\* C8: an emitted entry unpacks the Lua-side argument by the number n of
\* parameters after the receiver: n = 0 binds the empty tuple and calls with no
\* argument; n = 1 binds the argument to the single parameter; n >= 2
\* destructures an n-tuple, the i-th element being passed as the i-th declared
\* parameter; names and types are kept in declaration order, equal in number.
C8_ArityClasses ==
    (macro \in MethodMacros /\ ~Failed(out) /\ input.kind = "impl")
        => LET ms == MethodsOf(input)
               body == GenerateMethodsBody(out)
           IN  /\ Len(body) = Len(ms)
               /\ \A i \in 1..Len(body) :
                      LET n == Len(ms[i].params)
                          pp == body[i].handler.params_param
                      IN  /\ pp.form = (IF n = 0 THEN "unit"
                                        ELSE IF n = 1 THEN "single" ELSE "tuple")
                          /\ pp.pat = ParamIdents(ms[i])
                          /\ pp.ty = ParamTys(ms[i])
                          /\ Len(pp.pat) = Len(pp.ty)
               /\ call # NoCall =>
                      LET n == Len(ms[call.entry].params)
                      IN  /\ call.result.method = ms[call.entry].name
                          /\ Len(call.result.passed) = n
                          /\ \A j \in 1..n : call.result.passed[j] = call.args[j]

C8_Witness ==
    /\ macro = "Methods"
    /\ input.kind = "impl"
    /\ Len(input.items) = 1
    /\ input.items[1] = Method("g", "ref", <<Param(1, "ident"), Param(2, "ident")>>)
    /\ call # NoCall
    /\ call.args = <<10, 20>>
    /\ call.result.passed = <<10, 20>>

\* The generator entry point of a capability.
EntryPoint(capability) ==
    CASE capability = "Index" -> "generate_index"
      [] capability = "Methods" -> "generate_methods"
      [] capability = "MetaMethods" -> "generate_metamethods"

Requested(as) == {as[i].ident : i \in 1..Len(as)}

\* The token stream is the declaration and one registration routine that calls
\* the entry point of each capability of S once and nothing else.
RegistersExactly(ts, S) ==
    /\ ~Failed(ts)
    /\ Len(ts.impls) = 1
    /\ ts.impls[1].trait = "UserData"
    /\ Len(ts.impls[1].fns) = 1
    /\ ts.impls[1].fns[1].name = "add_methods"
    /\ LET body == ts.impls[1].fns[1].body
       IN  /\ Len(body) = Cardinality(S)
           /\ {body[i].call : i \in 1..Len(body)} = {EntryPoint(c) : c \in S}

\* C9 as stated: for every subset S of {index, methods, metamethods} requested
\* from user_data on a type, generation succeeds and emits one registration
\* routine calling the entry point of each generator of S once and no other.
C9_Original ==
    (/\ macro = "user_data"
     /\ input.kind \in {"impl", "struct", "enum"}
     /\ \A i \in 1..Len(attrs) : Recognized(attrs[i], {"Index", "Methods", "MetaMethods"}))
        => RegistersExactly(out, Requested(attrs))

\* C9 (amended): for every subset S of {methods, metamethods} requested from
\* user_data on a type, generation succeeds and emits exactly one registration
\* routine that calls the entry point of each generator of S once and no other
\* (none for the empty request); index is not a capability user_data
\* recognizes: a request that names it fails and emits no registration routine.
C9_Registration ==
    (macro = "user_data" /\ input.kind \in {"impl", "struct", "enum"})
        => /\ (\A i \in 1..Len(attrs) : Recognized(attrs[i], {"Methods", "MetaMethods"}))
                  => RegistersExactly(out, Requested(attrs)) /\ out.items = <<input>>
           /\ (\E i \in 1..Len(attrs) : attrs[i] = Path("Index"))
                  => Failed(out) /\ NothingEmitted(out)

C9_Witness ==
    /\ macro = "user_data"
    /\ input = ItemStruct("named", <<"x">>)
    /\ attrs = <<Path("Methods"), Path("MetaMethods")>>
    /\ RegistersExactly(out, {"Methods", "MetaMethods"})

\* A compile_error! of one of msgs anywhere in the token stream.
ReportedAnywhere(ts, msgs) ==
    \/ Reported(ts, msgs)
    \/ \E i \in 1..Len(ts.impls) : \E j \in 1..Len(ts.impls[i].fns) :
           /\ ts.impls[i].fns[j].kind = "macro_call"
           /\ ts.impls[i].fns[j].macro = "compile_error"
           /\ ts.impls[i].fns[j].msg \in msgs

\* C10: when Index is among the operators requested from metamethod generation
\* and the type is not a record with at least one named field, generation
\* aborts with UnsupportedShape and no dispatch entry is emitted, for Index or
\* for any other operator of the list.
C10_IndexOnBadShapeAborts ==
    (/\ macro = "metamethods"
     /\ input.kind \in {"struct", "enum"}
     /\ \A i \in 1..Len(attrs) : Recognized(attrs[i], MetaMethod)
     /\ \E i \in 1..Len(attrs) : attrs[i] = Path("Index")
     /\ ~Eligible(input, "Index"))
        => /\ ReportedAnywhere(out, UnsupportedShape)
           /\ Fns(out) = {}

\* What the code does in C10's case: the diagnostic is emitted in the place of
\* generate_index, and no Index dispatcher is emitted.
C10_NoIndexDispatcher ==
    (/\ macro = "metamethods"
     /\ input.kind \in {"struct", "enum"}
     /\ \A i \in 1..Len(attrs) : Recognized(attrs[i], MetaMethod)
     /\ \E i \in 1..Len(attrs) : attrs[i] = Path("Index")
     /\ ~Eligible(input, "Index"))
        => /\ ReportedAnywhere(out, UnsupportedShape)
           /\ IndexHandlers(out) = {}

\* C11 as stated: a type deriving NoIndex gets an index dispatcher, and that
\* dispatcher fails with NoSuchIndex(k) for every key k.
C11_Original ==
    macro = "NoIndex" =>
        /\ IndexHandlers(out) # {}
        /\ \A h \in IndexHandlers(out), data \in [FieldNames -> Values], k \in Keys :
               LET r == IndexClosure(h, data, k)
               IN  ~r.ok /\ r.err = "No such index" /\ r.key = k

\* C11 (amended): the NoIndex derive succeeds on every kind of declaration and
\* emits one RudeboyIndex impl whose generate_index has an empty body: it
\* installs no index dispatcher (no Index entry is registered), so no
\* generated closure ever runs on a key and none produces NoSuchIndex.
C11_NoDispatcherInstalled ==
    macro = "NoIndex" =>
        /\ ~Failed(out)
        /\ out.items = <<>>
        /\ Len(out.impls) = 1
        /\ out.impls[1].trait = "RudeboyIndex"
        /\ Len(out.impls[1].fns) = 1
        /\ out.impls[1].fns[1].name = "generate_index"
        /\ out.impls[1].fns[1].body = <<>>
        /\ IndexHandlers(out) = {}
        /\ call = NoCall

C11_Witness ==
    /\ macro = "NoIndex"
    /\ input = Struct("named", <<"x", "y">>)
    /\ out.impls[1].fns[1].name = "generate_index"
    /\ Statements(out) = {}

\* The dispatch entries metamethod generation emitted.
Entries(ts) == UNION {Range(ts.impls[i].fns) : i \in 1..Len(ts.impls)}

\* C12: an operator request has set semantics: on an eligible type, a list of
\* recognized identifiers yields exactly one dispatch entry per distinct
\* identifier, and the set of entries is the one fixed by the type and the set
\* of identifiers of the list: lists with the same identifiers, in any order
\* and with any repetition, yield the same set of entries, whatever order the
\* generator iterated its set in.
C12_SetSemantics ==
    (/\ macro = "metamethods"
     /\ \A i \in 1..Len(attrs) : Recognized(attrs[i], MetaMethod)
     /\ \A i \in 1..Len(attrs) : Eligible(input, attrs[i].ident)
     /\ input.kind \in {"struct", "enum"})
        => /\ ~Failed(out)
           /\ Len(out.impls) = 1
           /\ Len(out.impls[1].fns) = Cardinality(Requested(attrs))
           /\ \A f \in Entries(out) : f.kind = "fn" /\ Len(f.body) = 1
           /\ {f.body[1].tag : f \in Entries(out)} = Requested(attrs)
           /\ Entries(out)
                  = {get_method(id, DeriveInputFrom(input)) : id \in Requested(attrs)}

C12_Witness ==
    /\ macro = "metamethods"
    /\ attrs = <<Path("Sub"), Path("Sub")>>
    /\ input = ItemStruct("unit", <<>>)
    /\ ~Failed(out)
    /\ Len(out.impls[1].fns) = 1
    /\ out.impls[1].fns[1].name = "generate_sub"

\* The position, among the items of a block, of its first method that a check
\* rejects.
InvalidAt(block, i) == IsMethod(block.items[i]) /\ ~ValidMethod(block.items[i])

FirstInvalid(block) ==
    CHOOSE i \in 1..Len(block.items) :
        InvalidAt(block, i) /\ \A j \in 1..(i - 1) : ~InvalidAt(block, j)

\* The diagnostic of the first check a method fails: the receiver's before the
\* parameters'.
FirstFailingCheck(m) ==
    IF m.receiver \in TypedReceivers THEN MsgTypedReceiver
    ELSE IF m.receiver = "none" THEN MsgClassLevel
    ELSE IF m.receiver = "self" THEN MsgMovesSelf
    ELSE MsgExpectedIdent

\* What the macro named m emits for an impl block.
Expansion(m, block) ==
    CASE m = "methods" -> impl_methods_attr_macro(block)
      [] m = "Methods" -> lib_impl_methods_attr_macro(block, FALSE)
      [] m = "MethodsSealed" -> lib_impl_methods_attr_macro(block, TRUE)

\* C13: validation of an impl block stops at the first failure and reports one
\* error: the output of a block with an invalid method is a single diagnostic,
\* located in the first invalid method in declaration order and raised by the
\* first check that method fails (receiver before parameters); the items after
\* that method have no effect on the output (they are not examined), and
\* nothing is emitted, so no generated entry exists or runs.
C13_ShortCircuit ==
    (/\ macro \in MethodMacros
     /\ input.kind = "impl"
     /\ ~ValidBlock(input))
        => LET first == FirstInvalid(input)
           IN  /\ Len(out.errors) = 1
               /\ out.errors[1].span[2] = first
               /\ out.errors[1].msg = FirstFailingCheck(input.items[first])
               /\ out = Expansion(macro, ItemImpl(SubSeq(input.items, 1, first)))
               /\ NothingEmitted(out)
               /\ Statements(out) = {}
               /\ call = NoCall

C13_Witness ==
    /\ macro = "methods"
    /\ input.kind = "impl"
    /\ Len(input.items) = 2
    /\ input.items[1] = Method("f", "self", <<Param(1, "tuple")>>)
    /\ input.items[2] = Method("g", "none", <<>>)
    /\ Len(out.errors) = 1
    /\ out.errors[1].msg = MsgMovesSelf
    /\ out.errors[1].span[2] = 1

\* The position of the last method of the name among the methods ms.
LastNamed(ms, name) ==
    CHOOSE i \in 1..Len(ms) : ms[i].name = name /\ \A j \in (i + 1)..Len(ms) : ms[j].name # name

\* C14: for an impl block of valid methods two or more of which have the same
\* name, method generation succeeds and emits one dispatch entry per method, in
\* declaration order, duplicates included; once the generated registration has
\* run on a string-keyed method table, each name is bound to the entry of the
\* last method declared with it, and a call by that name runs that entry.
C14_LastDeclaredWins ==
    (/\ macro \in MethodMacros
     /\ ValidBlock(input)
     /\ ~UniqueNames([i \in 1..Len(MethodsOf(input)) |-> MethodsOf(input)[i].name]))
        => LET ms == MethodsOf(input)
               body == GenerateMethodsBody(out)
               table == MethodTable(out)
           IN  /\ ~Failed(out)
               /\ out.items = <<input>>
               /\ Len(body) = Len(ms)
               /\ \A i \in 1..Len(ms) :
                      /\ IsMethodStatement(body[i])
                      /\ body[i].key = ms[i].name
                      /\ body[i].handler.params_param.pat = ParamIdents(ms[i])
                      /\ body[i].call = "add_method_mut" <=> ms[i].receiver = "ref_mut"
               /\ DOMAIN table = {ms[i].name : i \in 1..Len(ms)}
               /\ \A name \in DOMAIN table : table[name] = LastNamed(ms, name)
               /\ call # NoCall =>
                      /\ call.entry = LastNamed(ms, call.key)
                      /\ Len(call.result.passed) = Len(ms[LastNamed(ms, call.key)].params)
                      /\ call.result.access = "exclusive"
                             <=> ms[LastNamed(ms, call.key)].receiver = "ref_mut"

C14_Witness ==
    /\ macro = "methods"
    /\ input.kind = "impl"
    /\ Len(input.items) = 2
    /\ input.items[1] = Method("f", "ref", <<>>)
    /\ input.items[2] = Method("f", "ref_mut", <<Param(1, "ident")>>)
    /\ Len(GenerateMethodsBody(out)) = 2
    /\ call # NoCall
    /\ call.key = "f"
    /\ call.entry = 2
    /\ call.result.access = "exclusive"
    /\ call.result.passed = <<10>>

\* The diagnostics of receiver validation.
ReceiverDiagnostics == {MsgTypedReceiver, MsgClassLevel, MsgMovesSelf}

\* Receivers that are a borrowed reference, in either written form.
ReferenceReceivers == BorrowedReceivers \cup {"typed_ref"}

RejectedByReceiverValidation(ts) ==
    \E i \in 1..Len(ts.errors) : ts.errors[i].msg \in ReceiverDiagnostics

\* C15 as stated: every method whose receiver is a borrowed reference passes
\* receiver validation, whatever the written form of the receiver: a block
\* whose methods all have such a receiver gets no receiver diagnostic.
C15_Original ==
    (/\ macro \in MethodMacros
     /\ input.kind = "impl"
     /\ \A i \in 1..Len(MethodsOf(input)) :
            MethodsOf(input)[i].receiver \in ReferenceReceivers)
        => ~RejectedByReceiverValidation(out)

\* C15 (amended): receiver validation rejects a method in exactly three cases:
\* no receiver (NoReceiver), the receiver self or mut self taken by value
\* (OwningReceiver), and a receiver written in the typed form self: T, whatever
\* T is, self: &Self and self: &mut Self included (the typed-receiver
\* diagnostic).  A block is rejected by receiver validation exactly when its
\* first invalid method has such a receiver; methods whose receiver is written
\* &self or &mut self pass it, and nothing more is checked about the receiver.
C15_ReceiverValidation ==
    (macro \in MethodMacros /\ input.kind = "impl")
        => /\ RejectedByReceiverValidation(out)
                  <=> /\ ~ValidBlock(input)
                      /\ input.items[FirstInvalid(input)].receiver \notin BorrowedReceivers
           /\ RejectedByReceiverValidation(out)
                  => LET r == input.items[FirstInvalid(input)].receiver
                     IN  /\ r = "none" <=> Reported(out, NoReceiver)
                         /\ r = "self" <=> Reported(out, OwningReceiver)
                         /\ r \in TypedReceivers <=> Reported(out, {MsgTypedReceiver})
                         /\ NothingEmitted(out)
           /\ (\A i \in 1..Len(MethodsOf(input)) :
                   MethodsOf(input)[i].receiver \in BorrowedReceivers)
                  => ~RejectedByReceiverValidation(out)

C15_Witness ==
    /\ macro = "Methods"
    /\ input.kind = "impl"
    /\ Len(input.items) = 2
    /\ input.items[1] = Method("f", "ref_mut", <<>>)
    /\ input.items[2] = Method("g", "typed_ref", <<>>)
    /\ Reported(out, {MsgTypedReceiver})
    /\ out.errors[1].span[2] = 2

AttributeMacros == MethodMacros \cup {"metamethods", "user_data"}

\* The declaration and the arguments given to an attribute macro do not pass
\* its validation.
ValidationFails(m, item, as) ==
    CASE m \in MethodMacros -> ~ValidBlock(item)
      [] m = "metamethods" ->
             \/ item.kind \notin {"struct", "enum"}
             \/ \E i \in 1..Len(as) : ~Recognized(as[i], MetaMethod)
             \/ \E i \in 1..Len(as) : ~Eligible(item, as[i].ident)
      [] m = "user_data" ->
             \/ item.kind \notin {"impl", "struct", "enum"}
             \/ \E i \in 1..Len(as) : ~Recognized(as[i], UserDataAttr)

\* The token stream is the declaration, once, followed by adapter code.
DeclarationThenAdapter(ts, item) ==
    /\ ts.errors = <<>>
    /\ ts.items = <<item>>
    /\ Len(ts.impls) >= 1
    /\ \A f \in Entries(ts) : f.kind = "fn"

\* The token stream is an error and nothing else.
OnlyTheError(ts) == Len(ts.errors) = 1 /\ NothingEmitted(ts)

\* C16: the attribute macros (methods, metamethods, user_data) preserve the
\* declaration exactly when they succeed: on success the output is the
\* declaration, unchanged and once, followed by the generated adapter; on any
\* validation failure the output is only the error, without the declaration
\* and without adapter code.
C16_PreservedExactlyOnSuccess ==
    macro \in AttributeMacros =>
        IF ValidationFails(macro, input, attrs)
        THEN OnlyTheError(out)
        ELSE DeclarationThenAdapter(out, input)

\* What holds of C16 in the code: it holds of methods and user_data, and of
\* metamethods but for a request of Index on a type without named fields.
C16_ButForIndexShape ==
    (/\ macro \in AttributeMacros
     /\ ~(/\ macro = "metamethods"
          /\ input.kind \in {"struct", "enum"}
          /\ \A i \in 1..Len(attrs) : Recognized(attrs[i], MetaMethod)
          /\ \E i \in 1..Len(attrs) : ~Eligible(input, attrs[i].ident)))
        => IF ValidationFails(macro, input, attrs)
           THEN OnlyTheError(out)
           ELSE DeclarationThenAdapter(out, input)

====
